---- MODULE Spec2Model ----
(***************************************************************************)
(* Model of openapi-axios-client: the parameter splitter (splitParams),    *)
(* operation naming (toSafeName, camelCase), the response normalizer       *)
(* (interceptor, responseError, getProblemFromStatus, getProblemFromError) *)
(* and the client builder (buildClientFromSpec, createMethod).             *)
(*                                                                         *)
(* JavaScript strings are sequences of one-character strings.              *)
(***************************************************************************)
EXTENDS Integers, Sequences, FiniteSets, TLC

VARIABLES
    \* --- parameter splitter (src/src/openapi.ts:45-78) ---
    tmplSegs,      \* the segments the URL template is written from
    urlTemplate,   \* splitParams' first argument
    parameters,    \* splitParams' second argument (the caller's value)
    callerBefore,  \* the caller's value as it was when the call was made
    splitResult,   \* what splitParams returned or threw; NoResult before the call
    \* --- response normalizer (src/src/wrapper.ts:90-151) ---
    hooks,         \* the transport's response hooks, in installation order
    validators,    \* the validators the client was built with, by operation name
    outcome,       \* the transport's outcome of the round trip being settled
    delivered,     \* what the round trip handed to the caller; NotDelivered before
    \* --- client builder (src/src/openapi.ts:116-164) ---
    spec,          \* the OpenAPI spec: its path items in insertion order
    pc,            \* where buildClientFromSpec stands: "loop", "hook", "assign", "ready"
    methods,       \* the flat map: operation name -> callable
    paths,         \* the nested map: path -> method -> callable
    visited,       \* the (path, method) entries the loop has handled, in order
    api,           \* the client object: property name -> value
    \* --- operation calls (src/src/openapi.ts:80-94) ---
    lastCall,      \* the most recent operation call and what it did
    inflight       \* the requests the transport holds and has not settled

splitVars == <<tmplSegs, urlTemplate, parameters, callerBefore, splitResult>>
normVars  == <<hooks, validators, outcome, delivered>>
buildVars == <<spec, pc, methods, paths, visited, api>>
callVars  == <<lastCall, inflight>>

vars == <<tmplSegs, urlTemplate, parameters, callerBefore, splitResult,
          hooks, validators, outcome, delivered,
          spec, pc, methods, paths, visited, api, lastCall, inflight>>

-----------------------------------------------------------------------------
(* Bounds *)

MaxSegs == 3
MaxStatus == 600
MaxItems == 2
MaxInFlight == 2
MaxStack == 2

-----------------------------------------------------------------------------
(* Strings *)

LowerChars == <<"a","b","c","d","e","f","g","h","i","j","k","l","m",
                "n","o","p","q","r","s","t","u","v","w","x","y","z">>
UpperChars == <<"A","B","C","D","E","F","G","H","I","J","K","L","M",
                "N","O","P","Q","R","S","T","U","V","W","X","Y","Z">>
Lower == { LowerChars[i] : i \in DOMAIN LowerChars }
Upper == { UpperChars[i] : i \in DOMAIN UpperChars }
Digit == {"0","1","2","3","4","5","6","7","8","9"}

DigitChars == <<"0","1","2","3","4","5","6","7","8","9">>

\* the characters encodeURIComponent leaves alone besides letters and digits
UriMark == {"-", "_", ".", "!", "~", "*", "'", "(", ")"}

\* the UTF-8 percent escapes of the other ASCII characters the model writes
PctCode(c) ==
    CASE c = " " -> <<"%","2","0">>
      [] c = "/" -> <<"%","2","F">>
      [] c = "{" -> <<"%","7","B">>
      [] c = "}" -> <<"%","7","D">>
      [] c = "$" -> <<"%","2","4">>
      [] c = "&" -> <<"%","2","6">>
      [] c = "[" -> <<"%","5","B">>
      [] c = "]" -> <<"%","5","D">>
      [] c = "%" -> <<"%","2","5">>
      [] c = "," -> <<"%","2","C">>
      [] c = ":" -> <<"%","3","A">>
      [] OTHER   -> <<"%","3","F">>

RECURSIVE encodeURIComponent(_)
encodeURIComponent(s) ==
    IF s = <<>> THEN <<>>
    ELSE LET c == Head(s)
         IN  (IF c \in Lower \cup Upper \cup Digit \cup UriMark THEN <<c>> ELSE PctCode(c))
             \o encodeURIComponent(Tail(s))

RECURSIVE DecimalDigits(_)
DecimalDigits(n) ==
    IF n < 10 THEN <<DigitChars[n + 1]>>
    ELSE DecimalDigits(n \div 10) \o <<DigitChars[(n % 10) + 1]>>

Range(f) == { f[i] : i \in DOMAIN f }

\* index of the first occurrence of pat in s at or after i, 0 when there is none
RECURSIVE IndexOf(_, _, _)
IndexOf(s, pat, i) ==
    IF i + Len(pat) - 1 > Len(s) THEN 0
    ELSE IF SubSeq(s, i, i + Len(pat) - 1) = pat THEN i
    ELSE IndexOf(s, pat, i + 1)

\* String.prototype.replace(pattern: string, replacement): the first occurrence only
ReplaceFirst(s, pat, rep) ==
    LET i == IndexOf(s, pat, 1)
    IN  IF i = 0 THEN s
        ELSE SubSeq(s, 1, i - 1) \o rep \o SubSeq(s, i + Len(pat), Len(s))

-----------------------------------------------------------------------------
(* JavaScript values and objects *)

Num(n)   == [t |-> "number", n |-> n, s |-> <<>>]
Str(s)   == [t |-> "string", n |-> 0, s |-> s]
Undef    == [t |-> "undefined", n |-> 0, s |-> <<>>]
Null     == [t |-> "null", n |-> 0, s |-> <<>>]
\* an object value; s names its content, <<>> for the empty object {}
ObjVal(s) == [t |-> "object", n |-> 0, s |-> s]
EmptyObjVal == ObjVal(<<>>)
\* a built-in function whose own name is s
NativeFn(s) == [t |-> "function", n |-> 0, s |-> s]

\* String(value)
StringOf(v) ==
    CASE v.t = "number"    -> DecimalDigits(v.n)
      [] v.t = "string"    -> v.s
      [] v.t = "undefined" -> <<"u","n","d","e","f","i","n","e","d">>
      [] v.t = "function"  -> <<"f","u","n","c","t","i","o","n"," ">> \o v.s
                              \o <<"(",")"," ","{"," ","[","n","a","t","i","v","e"," ","c","o","d","e","]"," ","}">>
      [] OTHER             -> <<"[","o","b","j","e","c","t"," ","O","b","j","e","c","t","]">>

\* the property names the inputs are written with
K_id          == <<"i","d">>
K_item        == <<"i","t","e","m">>
K_q           == <<"q">>
K_constructor == <<"c","o","n","s","t","r","u","c","t","o","r">>

\* property names every plain object inherits from Object.prototype
ObjectPrototypeKeys ==
    { <<"c","o","n","s","t","r","u","c","t","o","r">>,
      <<"t","o","S","t","r","i","n","g">>,
      <<"v","a","l","u","e","O","f">> }

\* Object.prototype[key]: constructor is the function Object, the others are
\* methods named as their key
ObjectPrototype(key) ==
    IF key = <<"c","o","n","s","t","r","u","c","t","o","r">>
    THEN NativeFn(<<"O","b","j","e","c","t">>)
    ELSE NativeFn(key)

EmptyObj == [k \in {} |-> Undef]

\* own keys of a plain object
OwnKeys(obj) == DOMAIN obj

\* `key in obj`: own or inherited
HasProperty(obj, key) == key \in OwnKeys(obj) \cup ObjectPrototypeKeys

\* obj[key]
GetProperty(obj, key) ==
    IF key \in OwnKeys(obj) THEN obj[key]
    ELSE IF key \in ObjectPrototypeKeys THEN ObjectPrototype(key)
    ELSE Undef

\* obj[key] = value
SetProperty(obj, key, value) ==
    [k \in OwnKeys(obj) \cup {key} |-> IF k = key THEN value ELSE obj[k]]

\* DeleteKeys that deletes nothing
DeleteKeys_Nothing(obj, ks) == obj

\* delete obj[k] for every k of ks
DeleteKeys(obj, ks) == [k \in OwnKeys(obj) \ ks |-> obj[k]]

\* { ...obj }: a fresh object holding obj's own entries
Spread(obj) == [k \in OwnKeys(obj) |-> obj[k]]

-----------------------------------------------------------------------------
(* Parameter splitter: src/src/openapi.ts:45-78 *)

\* the caller's flat parameter value: a mapping, a primitive, or something else
\* (boolean, undefined) that is neither an object nor a string or number
ObjParam(obj)  == [kind |-> "object", obj |-> obj, val |-> Undef]
PrimParam(v)   == [kind |-> "primitive", obj |-> EmptyObj, val |-> v]
OtherParam     == [kind |-> "other", obj |-> EmptyObj, val |-> Undef]

\* urlTemplate.match(/\{([^}]+)\}/g)?.map(key => key.slice(1, -1)) || []
\* scanning from index i: a match starts at a "{" whose next "}" lies at least
\* two characters further; the scan resumes after the match
RECURSIVE MatchKeys(_, _)
MatchKeys(t, i) ==
    IF i > Len(t) THEN <<>>
    ELSE IF t[i] # "{" THEN MatchKeys(t, i + 1)
    ELSE LET j == IndexOf(t, <<"}">>, i + 1)
         IN  IF j = 0 \/ j = i + 1 THEN MatchKeys(t, i + 1)
             ELSE <<SubSeq(t, i + 1, j - 1)>> \o MatchKeys(t, j + 1)

Thrown(msg, key) ==
    [tag |-> "throw", url |-> <<>>, pathParams |-> EmptyObj, queryParams |-> EmptyObj,
     callerObj |-> EmptyObj, message |-> msg, key |-> key]

Returned(url, pathParams, queryParams, callerObj) ==
    [tag |-> "return", url |-> url, pathParams |-> pathParams, queryParams |-> queryParams,
     callerObj |-> callerObj, message |-> "", key |-> <<>>]

\* lines 64-72: the replace callback run for each match, in template order, on the
\* running url and pathParams; the first key that is not `in paramsObj` throws
RECURSIVE ReplaceLoop(_, _, _, _)
ReplaceLoop(keys, url, pathParams, paramsObj) ==
    IF keys = <<>> THEN [tag |-> "done", url |-> url, pathParams |-> pathParams, key |-> <<>>]
    ELSE LET key == Head(keys)
         IN  IF HasProperty(paramsObj, key)
             THEN ReplaceLoop(Tail(keys),
                     ReplaceFirst(url, <<"{">> \o key \o <<"}">>,
                                  encodeURIComponent(StringOf(GetProperty(paramsObj, key)))),
                     SetProperty(pathParams, key, GetProperty(paramsObj, key)),
                     paramsObj)
             ELSE [tag |-> "throw", url |-> url, pathParams |-> pathParams, key |-> key]

\* ParamsObjOf without the single-primitive branch
ParamsObjOf_ObjectOnly(params, paramKeys) ==
    IF params.kind = "object" THEN params.obj ELSE EmptyObj

\* lines 57-62
ParamsObjOf(params, paramKeys) ==
    IF params.kind = "primitive" /\ Len(paramKeys) = 1
    THEN SetProperty(EmptyObj, paramKeys[1], params.val)
    ELSE IF params.kind = "object" THEN params.obj
    ELSE EmptyObj

splitParams(template, params) ==
    LET isSingleParam == params.kind = "primitive"
        paramKeys     == MatchKeys(template, 1)
    IN  IF isSingleParam /\ Len(paramKeys) = 0
        THEN Thrown("Primitives are only supported as path params", <<>>)
        ELSE LET paramsObj == ParamsObjOf(params, paramKeys)
                 loop      == ReplaceLoop(paramKeys, template, EmptyObj, paramsObj)
             IN  IF loop.tag = "throw"
                 THEN Thrown("Missing path parameter", loop.key)
                 ELSE Returned(loop.url, loop.pathParams,
                               DeleteKeys(Spread(paramsObj), OwnKeys(loop.pathParams)),
                               \* the deletes act on the copy: paramsObj is as it was
                               paramsObj)

-----------------------------------------------------------------------------
(* Operation naming: src/src/openapi.ts:96-114, 127-129 *)

WordChar == Lower \cup Upper \cup Digit \cup {"_"}

\* openapi.ts:96-98
toSafeName(name) == [i \in DOMAIN name |-> IF name[i] \in WordChar THEN name[i] ELSE "_"]

toLowerCase(c) ==
    IF c \in Upper THEN LowerChars[CHOOSE i \in DOMAIN UpperChars : UpperChars[i] = c] ELSE c
toUpperCase(c) ==
    IF c \in Lower THEN UpperChars[CHOOSE i \in DOMAIN LowerChars : LowerChars[i] = c] ELSE c

\* the number of consecutive characters of class cls in s from index i on
RECURSIVE RunLen(_, _, _)
RunLen(s, i, cls) ==
    IF i > Len(s) \/ s[i] \notin cls THEN 0 ELSE 1 + RunLen(s, i + 1, cls)

\* the length of the match of camelCase's word pattern at index i, 0 for none:
\*   [A-Z]{2,}(?=[A-Z][a-z]+[0-9]*|\b) | [A-Z]?[a-z]+[0-9]* | [A-Z] | [0-9]+
WordMatchLen(s, i) ==
    LET ups    == RunLen(s, i, Upper)
        after  == i + ups
        \* an upper-case run ends a word at a non-word character or the end of
        \* the string, or one character early when a lower-case letter follows
        acronym == IF ups < 2 THEN 0
                   ELSE IF after > Len(s) \/ s[after] \notin WordChar THEN ups
                   ELSE IF s[after] \in Lower /\ ups >= 3 THEN ups - 1
                   ELSE 0
        start  == IF s[i] \in Upper THEN i + 1 ELSE i
        lows   == RunLen(s, start, Lower)
        word   == IF lows = 0 THEN 0
                  ELSE (start - i) + lows + RunLen(s, start + lows, Digit)
    IN  IF acronym > 0 THEN acronym
        ELSE IF word > 0 THEN word
        ELSE IF s[i] \in Upper THEN 1
        ELSE RunLen(s, i, Digit)

\* input.match(reUnicodeWord) || []
RECURSIVE Words(_, _)
Words(s, i) ==
    IF i > Len(s) THEN <<>>
    ELSE LET n == WordMatchLen(s, i)
         IN  IF n = 0 THEN Words(s, i + 1)
             ELSE <<SubSeq(s, i, i + n - 1)>> \o Words(s, i + n)

LowerWord(w) == [i \in DOMAIN w |-> toLowerCase(w[i])]
Capitalized(w) == [i \in DOMAIN w |-> IF i = 1 THEN toUpperCase(w[i]) ELSE w[i]]

RECURSIVE JoinCapitalized(_)
JoinCapitalized(ws) ==
    IF ws = <<>> THEN <<>> ELSE Capitalized(Head(ws)) \o JoinCapitalized(Tail(ws))

\* openapi.ts:100-114
camelCase(input) ==
    LET words == [i \in DOMAIN Words(input, 1) |-> LowerWord(Words(input, 1)[i])]
    IN  IF Len(words) = 0 THEN <<>>
        ELSE words[1] \o JoinCapitalized(Tail(words))

\* path.replace(/[\/{}]/g, ' ')
SlashesAndBracesToSpaces(path) ==
    [i \in DOMAIN path |-> IF path[i] \in {"/", "{", "}"} THEN " " ELSE path[i]]

\* openapi.ts:127-129: an absent or empty declared operationId is falsy
OperationName(method, path, declared) ==
    IF declared # <<>>
    THEN toSafeName(declared)
    ELSE toSafeName(camelCase(method \o <<" ">> \o SlashesAndBracesToSpaces(path)))

-----------------------------------------------------------------------------
(* Response normalizer: src/src/wrapper.ts:11-20, 100-151 *)

PROBLEM_CODE ==
    { "CLIENT_ERROR", "SERVER_ERROR", "CONNECTION_ERROR", "NETWORK_ERROR",
      "UNKNOWN_ERROR", "CANCEL_ERROR", "TIMEOUT_ERROR", "VALIDATION_ERROR" }

\* a status is a number or undefined
Status(n) == [present |-> TRUE, n |-> n]
NoStatus  == [present |-> FALSE, n |-> 0]

\* getProblemFromStatus with the server range opened one status late
getProblemFromStatus_Above500(status) ==
    IF ~status.present \/ status.n = 0 THEN "UNKNOWN_ERROR"
    ELSE IF status.n >= 200 /\ status.n < 300 THEN "null"
    ELSE IF status.n >= 400 /\ status.n < 500 THEN "CLIENT_ERROR"
    ELSE IF status.n > 500 THEN "SERVER_ERROR"
    ELSE "UNKNOWN_ERROR"

\* wrapper.ts:100-106; "null" is the null the 2xx branch returns
getProblemFromStatus(status) ==
    IF ~status.present \/ status.n = 0 THEN "UNKNOWN_ERROR"
    ELSE IF status.n >= 200 /\ status.n < 300 THEN "null"
    ELSE IF status.n >= 400 /\ status.n < 500 THEN "CLIENT_ERROR"
    ELSE IF status.n >= 500 THEN "SERVER_ERROR"
    ELSE "UNKNOWN_ERROR"

\* a ?? b on problem values
NullishOr(a, b) == IF a \in {"null", "undefined"} THEN b ELSE a

\* the response an error or a success carries; NoResponse is e.response undefined
Response(status, data, headers) ==
    [present |-> TRUE, status |-> status, data |-> data, headers |-> headers]
NoResponse ==
    [present |-> FALSE, status |-> NoStatus, data |-> Undef, headers |-> "undefined"]

\* e.response?.status
StatusOfError(e) == IF e.response.present THEN e.response.status ELSE NoStatus

\* wrapper.ts:109-111: axios' isCancel, true of the errors a cancellation raises
isCancel(e) == e.cancelled

\* wrapper.ts:113-119
getProblemFromError(e) ==
    IF e.message = "Network Error" THEN "NETWORK_ERROR"
    ELSE IF isCancel(e) THEN "CANCEL_ERROR"
    ELSE IF e.code = "" THEN getProblemFromStatus(StatusOfError(e))
    ELSE IF e.code = "ECONNABORTED" THEN "TIMEOUT_ERROR"
    ELSE "UNKNOWN_ERROR"

\* isAxiosError taking every error for a transport error
isAxiosError_Always(e) == TRUE

\* wrapper.ts:133-136
isAxiosError(e) == e.isAxiosError

NoError ==
    [isAxiosError |-> FALSE, message |-> "", code |-> "", cancelled |-> FALSE,
     response |-> NoResponse, config |-> [k \in {} |-> 0]]

\* what a response hook hands on: a fulfilled value (a uniform result) or a
\* rejection carrying the thrown error
Fulfilled(ok, problem, data, status, headers, config, originalError, hasError) ==
    [tag |-> "fulfilled", ok |-> ok, problem |-> problem, data |-> data, status |-> status,
     headers |-> headers, config |-> config, originalError |-> originalError,
     hasOriginalError |-> hasError, thrown |-> NoError]

Rejected(e) ==
    [tag |-> "rejected", ok |-> FALSE, problem |-> "undefined", data |-> Undef,
     status |-> NoStatus, headers |-> "undefined", config |-> [k \in {} |-> 0],
     originalError |-> NoError, hasOriginalError |-> FALSE, thrown |-> e]

\* wrapper.ts:121-130
interceptor(response, config) ==
    Fulfilled(TRUE, "null",
              IF response.data.t \in {"null", "undefined"} THEN EmptyObjVal ELSE response.data,
              response.status, response.headers, config, NoError, FALSE)

\* wrapper.ts:138-151
responseError(e) ==
    IF isAxiosError(e)
    THEN Fulfilled(FALSE,
                   NullishOr(getProblemFromStatus(StatusOfError(e)), "undefined"),
                   EmptyObjVal,
                   StatusOfError(e),
                   e.response.headers,
                   e.config,
                   e, TRUE)
    ELSE Rejected(e)

-----------------------------------------------------------------------------
(* Response hooks: src/src/wrapper.ts:96 and src/src/openapi.ts:136-159 *)

NoConfig == [k \in {} |-> Undef]
NoValidators == [k \in {} |-> {}]

ThrownBy(name) ==
    [isAxiosError |-> FALSE, message |-> name, code |-> "", cancelled |-> FALSE,
     response |-> NoResponse, config |-> NoConfig]

\* (res.config as any).operationId, as the property key it is used for
OperationIdOf(config) ==
    IF "operationId" \in DOMAIN config THEN config.operationId
    ELSE <<"u","n","d","e","f","i","n","e","d">>

\* openapi.ts:137-158: the hook buildClientFromSpec installs; a validator is
\* the set of payloads its parse accepts, and validators[operationId] also
\* finds what the validators object inherits, which has no parse to call
validationHook(res, vals) ==
    IF res.tag = "fulfilled" /\ res.ok
    THEN LET operationId == OperationIdOf(res.config)
             failure(e)  == Fulfilled(FALSE, "VALIDATION_ERROR", res.data, res.status,
                                      res.headers, res.config, e, TRUE)
         IN  IF operationId \in DOMAIN vals
             THEN IF res.data \in vals[operationId] THEN res
                  ELSE failure(ThrownBy("ZodError"))
             ELSE IF operationId \in ObjectPrototypeKeys
             THEN failure(ThrownBy("TypeError"))
             ELSE res
    ELSE res

\* the transport's outcome of one round trip
Success(response, config) ==
    [kind |-> "success", response |-> response, error |-> NoError, config |-> config]
Failure(e) ==
    [kind |-> "failure", response |-> NoResponse, error |-> e, config |-> e.config]
NoOutcome ==
    [kind |-> "none", response |-> NoResponse, error |-> NoError, config |-> NoConfig]

\* one hook applied to what the previous one handed on: the hook createApi
\* installs has both handlers, the validation hook only the fulfilled one
ApplyHook(hook, settled, vals) ==
    IF hook = "normalizer"
    THEN IF settled.tag = "rejected" THEN responseError(settled.thrown) ELSE settled
    ELSE IF settled.tag = "fulfilled" THEN validationHook(settled, vals) ELSE settled

RECURSIVE ApplyHooks(_, _, _)
ApplyHooks(hs, settled, vals) ==
    IF hs = <<>> THEN settled
    ELSE ApplyHooks(Tail(hs), ApplyHook(Head(hs), settled, vals), vals)

\* what api.request(config) settles to for a transport outcome: the first hook's
\* fulfilled handler is `interceptor`, which turns the raw response into a result
Deliver(hs, out, vals) ==
    IF out.kind = "success"
    THEN ApplyHooks(Tail(hs), interceptor(out.response, out.config), vals)
    ELSE ApplyHooks(hs, Rejected(out.error), vals)

NotDelivered ==
    [tag |-> "none", ok |-> FALSE, problem |-> "undefined", data |-> Undef,
     status |-> NoStatus, headers |-> "undefined", config |-> NoConfig,
     originalError |-> NoError, hasOriginalError |-> FALSE, thrown |-> NoError]

\* the normalizer's variables while another part of the program is examined
NormIdle ==
    /\ hooks = <<>>
    /\ validators = NoValidators
    /\ outcome = NoOutcome
    /\ delivered = NotDelivered

-----------------------------------------------------------------------------
(* Client builder: src/src/openapi.ts:116-164 *)

\* property values of the client object
Transport(name) ==
    [kind |-> "transport", id |-> 0, path |-> <<>>, method |-> <<>>, operationId |-> name]
PathsValue ==
    [kind |-> "paths", id |-> 0, path |-> <<>>, method |-> <<>>, operationId |-> <<>>]

\* openapi.ts:80-82: the closure createMethod returns; id tells one closure
\* instance from another
createMethod(path, method, operationId, id) ==
    [kind |-> "operation", id |-> id, path |-> path, method |-> method,
     operationId |-> operationId]

P_request      == <<"r","e","q","u","e","s","t">>
P_get          == <<"g","e","t">>
P_post         == <<"p","o","s","t">>
P_interceptors == <<"i","n","t","e","r","c","e","p","t","o","r","s">>
P_paths        == <<"p","a","t","h","s">>

\* the request and interceptor surface of the instance axios.create returns
TransportSurface == {P_request, P_get, P_post, P_interceptors}

\* wrapper.ts:90-98: the client object createApi returns
createApi == [n \in TransportSurface |-> Transport(n)]

NoMap == [k \in {} |-> PathsValue]
NoNestedMap == [k \in {} |-> NoMap]

\* one operation of a path item; declared is <<>> when there is no operationId
Operation(method, declared) == [method |-> method, declared |-> declared]
PathItem(path, ops) == [path |-> path, ops |-> ops]

\* RegisterNested storing another closure instance than the flat map's
RegisterNested_Copy(inner, method, fn) ==
    [k \in DOMAIN inner \cup {method} |-> IF k = method THEN [fn EXCEPT !.id = 0] ELSE inner[k]]

\* openapi.ts:132
RegisterNested(inner, method, fn) ==
    [k \in DOMAIN inner \cup {method} |-> IF k = method THEN fn ELSE inner[k]]

\* openapi.ts:126-133: the inner loop over one path item's operations, from
\* operation j on; st holds methods, the item's nested map and the visit log
RECURSIVE MethodLoop(_, _, _, _)
MethodLoop(path, ops, j, st) ==
    IF j > Len(ops) THEN st
    ELSE LET method      == ops[j].method
             operationId == OperationName(method, path, ops[j].declared)
             fn          == createMethod(path, method, operationId, Len(st.visited) + 1)
         IN  MethodLoop(path, ops, j + 1,
                 [methods |-> [k \in DOMAIN st.methods \cup {operationId} |->
                                 IF k = operationId THEN fn ELSE st.methods[k]],
                  inner   |-> RegisterNested(st.inner, method, fn),
                  visited |-> Append(st.visited, <<path, method>>)])

\* Object.assign(api, methods, { paths }): openapi.ts:161
ObjectAssign(target, ms) ==
    [k \in DOMAIN target \cup DOMAIN ms \cup {P_paths} |->
        IF k = P_paths THEN PathsValue
        ELSE IF k \in DOMAIN ms THEN ms[k]
        ELSE target[k]]

\* openapi.ts:124-134: one iteration of the outer loop
BuildPath ==
    /\ pc = "loop"
    /\ Cardinality(DOMAIN paths) < Len(spec)
    /\ LET item == spec[Cardinality(DOMAIN paths) + 1]
           st   == MethodLoop(item.path, item.ops, 1,
                              [methods |-> methods, inner |-> NoMap, visited |-> visited])
       IN  /\ methods' = st.methods
           /\ paths' = [k \in DOMAIN paths \cup {item.path} |->
                           IF k = item.path THEN st.inner ELSE paths[k]]
           /\ visited' = st.visited
    /\ UNCHANGED <<spec, pc, api>>
    /\ UNCHANGED <<splitVars, normVars, callVars>>

\* the outer loop ends
LoopDone ==
    /\ pc = "loop"
    /\ Cardinality(DOMAIN paths) = Len(spec)
    /\ pc' = "hook"
    /\ UNCHANGED <<spec, methods, paths, visited, api>>
    /\ UNCHANGED <<splitVars, normVars, callVars>>

\* openapi.ts:136-159
\* openapi.ts:136-137 on a transport with every hook appended once
UseValidation_Always(hs, vals) == Append(hs, "validation")

\* openapi.ts:136-137: Object.keys(validators).length guards the one call of
\* api.interceptors.response.use, which appends to the response hooks
UseValidation(hs, vals) ==
    IF DOMAIN vals # {} THEN Append(hs, "validation") ELSE hs

InstallHook ==
    /\ pc = "hook"
    /\ hooks' = UseValidation(hooks, validators)
    /\ pc' = "assign"
    /\ UNCHANGED <<validators, outcome, delivered>>
    /\ UNCHANGED <<spec, methods, paths, visited, api>>
    /\ UNCHANGED <<splitVars, callVars>>

\* openapi.ts:161-163
AssignClient ==
    /\ pc = "assign"
    /\ api' = ObjectAssign(api, methods)
    /\ pc' = "ready"
    /\ UNCHANGED <<spec, methods, paths, visited>>
    /\ UNCHANGED <<splitVars, normVars, callVars>>

-----------------------------------------------------------------------------
(* Operation calls: src/src/openapi.ts:80-94 *)

NoOverrides == [k \in {} |-> Undef]

\* { ...a, ...b }
Merge(a, b) == [k \in DOMAIN a \cup DOMAIN b |-> IF k \in DOMAIN b THEN b[k] ELSE a[k]]

NoThrow == [present |-> FALSE, message |-> "", key |-> <<>>]
Throw(msg, key) == [present |-> TRUE, message |-> msg, key |-> key]

\* a request configuration read as a parameter mapping, which is what an
\* operation called with it as first argument does: keys and values as
\* JavaScript sees them
ConfigKey(k) ==
    CASE k = "method"      -> <<"m","e","t","h","o","d">>
      [] k = "url"         -> <<"u","r","l">>
      [] k = "params"      -> <<"p","a","r","a","m","s">>
      [] k = "data"        -> <<"d","a","t","a">>
      [] k = "operationId" -> <<"o","p","e","r","a","t","i","o","n","I","d">>
      [] OTHER             -> <<"t","i","m","e","o","u","t">>

ConfigValue(cfg, k) ==
    CASE k \in {"method", "url", "operationId"} -> Str(cfg[k])
      [] k = "params"                           -> ObjVal(<<"p","a","r","a","m","s">>)
      [] k = "data"                             -> cfg[k]
      [] OTHER                                  -> Num(cfg[k])

ConfigAsParams(cfg) ==
    [key \in { ConfigKey(k) : k \in DOMAIN cfg } |->
        ConfigValue(cfg, CHOOSE k \in DOMAIN cfg : ConfigKey(k) = key)]

\* openapi.ts:84-91
BuildConfig(fn, sp, data, overrides) ==
    Merge([method |-> fn.method, url |-> sp.url, params |-> sp.queryParams, data |-> data,
           operationId |-> fn.operationId],
          overrides)

\* openapi.ts:82-94: the body of an operation, called on the client object as
\* it is at the call; api.request is looked up then, so when an operation has
\* taken the place of the transport's request the call goes to that operation,
\* with the configuration as its parameters, until the stack is exhausted
RECURSIVE InvokeOperation(_, _, _, _, _, _)
InvokeOperation(fn, params, data, overrides, client, depth) ==
    LET sp == splitParams(fn.path, params)
    IN  IF sp.tag = "throw"
        THEN [submitted |-> <<>>, thrown |-> Throw(sp.message, sp.key)]
        ELSE LET axiosConfig == BuildConfig(fn, sp, data, overrides)
                 request     == client[P_request]
             IN  IF request.kind = "transport"
                 THEN [submitted |-> <<axiosConfig>>, thrown |-> NoThrow]
                 ELSE IF depth >= MaxStack
                 THEN [submitted |-> <<>>, thrown |-> Throw("RangeError", <<>>)]
                 ELSE InvokeOperation(request, ObjParam(ConfigAsParams(axiosConfig)),
                                      Undef, NoOverrides, client, depth + 1)

NoCall ==
    [made |-> FALSE, fn |-> PathsValue, params |-> OtherParam, data |-> Undef,
     overrides |-> NoOverrides, submitted |-> <<>>, thrown |-> NoThrow]

\* the callables a caller reaches on the client: by operation name, or through
\* the paths property
Callables ==
    { api[n] : n \in { m \in DOMAIN api : api[m].kind = "operation" } }
    \cup (IF P_paths \in DOMAIN api /\ api[P_paths].kind = "paths"
          THEN UNION { { paths[p][m] : m \in DOMAIN paths[p] } : p \in DOMAIN paths }
          ELSE {})

\* the arguments of the calls examined: parameters, body, per-call overrides
CallInputs ==
    { [params |-> ObjParam([k \in {K_id, K_q} |-> IF k = K_id THEN Num(42) ELSE Str(<<"a"," ","b">>)]),
       data |-> Undef, overrides |-> NoOverrides],
      [params |-> ObjParam(EmptyObj), data |-> ObjVal(<<"b","o","d","y">>),
       overrides |-> NoOverrides],
      [params |-> PrimParam(Str(<<"x","/","y">>)), data |-> ObjVal(<<"b","o","d","y">>),
       overrides |-> [url |-> <<"/","o">>, timeout |-> 5]],
      [params |-> ObjParam([k \in {K_id} |-> Num(7)]), data |-> Undef,
       overrides |-> [data |-> Null, operationId |-> <<"o","t","h","e","r">>]] }

\* one call of an operation of the built client
Call ==
    /\ pc = "ready"
    /\ \E fn \in Callables, in \in CallInputs :
          LET r == InvokeOperation(fn, in.params, in.data, in.overrides, api, 1)
          IN  /\ Cardinality(inflight \cup Range(r.submitted)) <= MaxInFlight
              /\ inflight' = inflight \cup Range(r.submitted)
              /\ lastCall' = [made |-> TRUE, fn |-> fn, params |-> in.params, data |-> in.data,
                              overrides |-> in.overrides, submitted |-> r.submitted,
                              thrown |-> r.thrown]
    /\ UNCHANGED <<splitVars, normVars, buildVars>>

\* the builder's and the calls' variables while another part is examined
BuildIdle ==
    /\ spec = <<>>
    /\ pc = "idle"
    /\ methods = NoMap
    /\ paths = NoNestedMap
    /\ visited = <<>>
    /\ api = createApi

CallIdle ==
    /\ lastCall = NoCall
    /\ inflight = {}

-----------------------------------------------------------------------------
(* Inputs of the parameter splitter *)

Placeholder(name) == [ph |-> TRUE, text |-> name]
Literal(text)     == [ph |-> FALSE, text |-> text]

\* one path segment as written in a template: "/text" or "/{name}"
SegText(seg) ==
    IF seg.ph THEN <<"/", "{">> \o seg.text \o <<"}">> ELSE <<"/">> \o seg.text

RECURSIVE Render(_)
Render(segs) == IF segs = <<>> THEN <<>> ELSE SegText(Head(segs)) \o Render(Tail(segs))

Segs ==
    { Placeholder(K_id), Placeholder(K_item), Placeholder(K_constructor),
      Literal(<<"u">>), Literal(<<"{","}">>) }

SegSeqs == UNION { [1..n -> Segs] : n \in 0..MaxSegs }

ParamKeys == {K_id, K_item, K_q}
ParamVals == { Num(42), Str(<<"4","2">>), Str(<<"a"," ","b">>) }
Primitives == ParamVals \cup { Str(<<>>) }

ParamObjs == UNION { [ks -> ParamVals] : ks \in SUBSET ParamKeys }

ParamInputs ==
    { ObjParam(o) : o \in ParamObjs } \cup { PrimParam(v) : v \in Primitives } \cup { OtherParam }

NoResult ==
    [tag |-> "none", url |-> <<>>, pathParams |-> EmptyObj, queryParams |-> EmptyObj,
     callerObj |-> EmptyObj, message |-> "", key |-> <<>>]

\* the splitter's variables while another part of the program is examined
SplitIdle ==
    /\ tmplSegs = <<>>
    /\ urlTemplate = <<>>
    /\ parameters = OtherParam
    /\ callerBefore = OtherParam
    /\ splitResult = NoResult

SplitInit ==
    /\ NormIdle
    /\ BuildIdle
    /\ CallIdle
    /\ tmplSegs \in SegSeqs
    /\ urlTemplate = Render(tmplSegs)
    /\ parameters \in ParamInputs
    /\ callerBefore = parameters
    /\ splitResult = NoResult

\* one call splitParams(urlTemplate, parameters)
Split ==
    /\ splitResult = NoResult
    /\ LET r == splitParams(urlTemplate, parameters)
       IN  /\ splitResult' = r
           /\ parameters' = IF r.tag = "return" /\ parameters.kind = "object"
                            THEN [parameters EXCEPT !.obj = r.callerObj]
                            ELSE parameters
    /\ UNCHANGED <<tmplSegs, urlTemplate, callerBefore>>
    /\ UNCHANGED <<normVars, buildVars, callVars>>

SplitNext == Split

SplitSpec == SplitInit /\ [][SplitNext]_vars

-----------------------------------------------------------------------------
(* Properties of the parameter splitter, stated on the template's segments *)

\* the placeholder names of a template, in template order
RECURSIVE PlaceholderNames(_)
PlaceholderNames(segs) ==
    IF segs = <<>> THEN <<>>
    ELSE (IF Head(segs).ph THEN <<Head(segs).text>> ELSE <<>>) \o PlaceholderNames(Tail(segs))

\* the template with each placeholder segment written as the percent-encoded
\* string form of the value obj holds for it
RECURSIVE Substituted(_, _)
Substituted(segs, obj) ==
    IF segs = <<>> THEN <<>>
    ELSE (IF Head(segs).ph
          THEN <<"/">> \o encodeURIComponent(StringOf(obj[Head(segs).text]))
          ELSE SegText(Head(segs)))
         \o Substituted(Tail(segs), obj)

\* the first placeholder, in template order, that obj has no entry for
RECURSIVE FirstMissing(_, _)
FirstMissing(names, obj) ==
    IF names = <<>> THEN <<>>
    ELSE IF Head(names) \notin DOMAIN obj THEN Head(names)
    ELSE FirstMissing(Tail(names), obj)

SplitDone == splitResult.tag # "none"

AllSupplied ==
    /\ callerBefore.kind = "object"
    /\ Range(PlaceholderNames(tmplSegs)) \subseteq DOMAIN callerBefore.obj

SomeMissing ==
    /\ callerBefore.kind = "object"
    /\ ~ (Range(PlaceholderNames(tmplSegs)) \subseteq DOMAIN callerBefore.obj)

\* C5: with a mapping that holds a value for every placeholder, splitParams
\* returns the url with every placeholder replaced by the percent-encoded string
\* form of its value and no placeholder left, pathParams holding exactly the
\* placeholders with the caller's values, queryParams holding exactly the
\* mapping's other entries, and the caller's mapping unchanged.
C5_SplitAllSupplied ==
    (SplitDone /\ AllSupplied) =>
        LET names == Range(PlaceholderNames(tmplSegs))
            obj   == callerBefore.obj
        IN  /\ splitResult.tag = "return"
            /\ splitResult.url = Substituted(tmplSegs, obj)
            /\ MatchKeys(splitResult.url, 1) = <<>>
            /\ DOMAIN splitResult.pathParams = names
            /\ \A k \in names : splitResult.pathParams[k] = obj[k]
            /\ DOMAIN splitResult.queryParams = DOMAIN obj \ names
            /\ \A k \in DOMAIN obj \ names : splitResult.queryParams[k] = obj[k]
            /\ parameters = callerBefore

\* C5 witness: two different placeholders substituted, one value needing an
\* escape, and an extra key left as a query parameter
C5_Witness ==
    /\ SplitDone /\ AllSupplied
    /\ splitResult.tag = "return"
    /\ Cardinality(Range(PlaceholderNames(tmplSegs))) = 2
    /\ callerBefore.obj[K_id] = Str(<<"a"," ","b">>)
    /\ K_q \in DOMAIN splitResult.queryParams

\* C6: when a placeholder has no entry in the mapping, or a single primitive
\* meets a template with two or more placeholders, splitParams throws
\* 'Missing path parameter' naming the first such placeholder in template
\* order and returns nothing.
C6_MissingFailsFast ==
    /\ (SplitDone /\ SomeMissing) =>
          /\ splitResult.tag = "throw"
          /\ splitResult.message = "Missing path parameter"
          /\ splitResult.key = FirstMissing(PlaceholderNames(tmplSegs), callerBefore.obj)
    /\ (SplitDone /\ callerBefore.kind = "primitive" /\ Len(PlaceholderNames(tmplSegs)) >= 2) =>
          /\ splitResult.tag = "throw"
          /\ splitResult.message = "Missing path parameter"
          /\ splitResult.key = PlaceholderNames(tmplSegs)[1]

\* C7: a single primitive against a template without placeholders throws
\* 'Primitives are only supported as path params'; against a template with
\* exactly one placeholder it returns that placeholder's value as the only
\* path parameter, no query parameter, and the url with the percent-encoded
\* string form, the same for the number 42 and the string "42".
C7_SinglePrimitive ==
    (SplitDone /\ callerBefore.kind = "primitive") =>
        LET names == PlaceholderNames(tmplSegs)
        IN  /\ Len(names) = 0 =>
                /\ splitResult.tag = "throw"
                /\ splitResult.message = "Primitives are only supported as path params"
            /\ Len(names) = 1 =>
                LET asObj == [k \in {names[1]} |-> callerBefore.val]
                IN  /\ splitResult.tag = "return"
                    /\ splitResult.pathParams = asObj
                    /\ DOMAIN splitResult.queryParams = {}
                    /\ splitResult.url = Substituted(tmplSegs, asObj)
                    /\ callerBefore.val \in {Num(42), Str(<<"4","2">>)} =>
                          splitResult.url =
                              Substituted(tmplSegs, [k \in {names[1]} |-> Str(<<"4","2">>)])

\* C7 witness: the number 42 substituted into a one-placeholder template
C7_Witness ==
    /\ SplitDone
    /\ callerBefore = PrimParam(Num(42))
    /\ PlaceholderNames(tmplSegs) = <<K_id>>
    /\ splitResult.tag = "return"
    /\ splitResult.url = Render([i \in DOMAIN tmplSegs |->
                                   IF tmplSegs[i].ph THEN Literal(<<"4","2">>) ELSE tmplSegs[i]])


-----------------------------------------------------------------------------
(* The normalizer on every transport outcome *)

Body == ObjVal(<<"b","o","d","y">>)

\* the request configuration a response or an error echoes
EchoedConfig ==
    [method |-> <<"g","e","t">>, url |-> <<"/","u">>, params |-> EmptyObj, data |-> Undef,
     operationId |-> <<"g","e","t","U">>]

Statuses == { Status(n) : n \in 0..MaxStatus }

ErrorResponses == { NoResponse } \cup { Response(st, Body, "headers") : st \in Statuses }

TransportErrors ==
    [ isAxiosError : BOOLEAN,
      message      : {"Network Error", "Request failed"},
      code         : {"", "ECONNABORTED", "ERR_BAD_REQUEST"},
      cancelled    : BOOLEAN,
      response     : ErrorResponses,
      config       : {EchoedConfig} ]

TransportOutcomes ==
    { Failure(e) : e \in TransportErrors }
    \cup { Success(Response(st, d, "headers"), EchoedConfig) :
             st \in Statuses, d \in {Body, Null, Undef} }

\* the state createApi leaves: the normalizer is the transport's only hook
NormInit ==
    /\ SplitIdle
    /\ BuildIdle
    /\ CallIdle
    /\ hooks = <<"normalizer">>
    /\ validators = NoValidators
    /\ outcome \in TransportOutcomes
    /\ delivered = NotDelivered

\* the transport fulfils the request and the hooks run
Resolve ==
    /\ delivered = NotDelivered
    /\ outcome.kind = "success"
    /\ delivered' = Deliver(hooks, outcome, validators)
    /\ UNCHANGED <<hooks, validators, outcome>>
    /\ UNCHANGED <<splitVars, buildVars, callVars>>

\* the transport rejects the request and the hooks run
Reject ==
    /\ delivered = NotDelivered
    /\ outcome.kind = "failure"
    /\ delivered' = Deliver(hooks, outcome, validators)
    /\ UNCHANGED <<hooks, validators, outcome>>
    /\ UNCHANGED <<splitVars, buildVars, callVars>>

NormNext == Resolve \/ Reject

NormSpec == NormInit /\ [][NormNext]_vars

Settled == delivered.tag # "none"

\* a rejection with a transport-shaped error that carries no response
RejectedWithoutResponse ==
    /\ outcome.kind = "failure"
    /\ outcome.error.isAxiosError
    /\ ~outcome.error.response.present

\* a rejection with a transport-shaped error that carries a response
RejectedWithResponse ==
    /\ outcome.kind = "failure"
    /\ outcome.error.isAxiosError
    /\ outcome.error.response.present

\* C1: a transport-shaped error without a response is classified by the error:
\* message "Network Error" gives NETWORK_ERROR, a cancelled request
\* CANCEL_ERROR, code ECONNABORTED TIMEOUT_ERROR, anything else UNKNOWN_ERROR.
C1_ErrorBasedClassification ==
    (Settled /\ RejectedWithoutResponse) =>
        LET e == outcome.error
        IN  /\ delivered.tag = "fulfilled"
            /\ ~delivered.ok
            /\ delivered.problem =
                  IF e.message = "Network Error" THEN "NETWORK_ERROR"
                  ELSE IF e.cancelled THEN "CANCEL_ERROR"
                  ELSE IF e.code = "ECONNABORTED" THEN "TIMEOUT_ERROR"
                  ELSE "UNKNOWN_ERROR"

\* C2: every uniform result is ok with problem null, or not ok with one of the
\* eight problem codes.
C2_ExactlyOneVariant ==
    (Settled /\ delivered.tag = "fulfilled") =>
        \/ delivered.ok /\ delivered.problem = "null"
        \/ ~delivered.ok /\ delivered.problem \in PROBLEM_CODE

\* the status table of the claim; 2xx carries no problem code
StatusTable(n) ==
    IF n = 0 THEN {"UNKNOWN_ERROR"}
    ELSE IF n \in 200..299 THEN {"null", "undefined"}
    ELSE IF n \in 400..499 THEN {"CLIENT_ERROR"}
    ELSE IF n >= 500 THEN {"SERVER_ERROR"}
    ELSE {"UNKNOWN_ERROR"}

\* C3: a transport-shaped error with a response of status s gives ok = false,
\* status = s, an empty payload, originalError = the error, and the problem of
\* s's class: 0 UNKNOWN_ERROR, 400..499 CLIENT_ERROR, 500 and above
\* SERVER_ERROR, 200..299 no problem code, any other status UNKNOWN_ERROR.
C3_StatusClassification ==
    (Settled /\ RejectedWithResponse) =>
        LET e == outcome.error
        IN  /\ delivered.tag = "fulfilled"
            /\ ~delivered.ok
            /\ delivered.status = e.response.status
            /\ delivered.data = EmptyObjVal
            /\ delivered.hasOriginalError /\ delivered.originalError = e
            /\ delivered.problem \in StatusTable(e.response.status.n)

\* C3 witness: a 404 answer with a body became a CLIENT_ERROR result
C3_Witness ==
    /\ Settled /\ RejectedWithResponse
    /\ outcome.error.response.status = Status(404)
    /\ outcome.error.response.data = Body
    /\ delivered.problem = "CLIENT_ERROR"
    /\ delivered.data = EmptyObjVal

\* C4: a rejection is thrown to the caller exactly when the error is not
\* transport-shaped, and then it is the same error; a transport-shaped error
\* always becomes a failure result.
C4_ThrownIffNotTransportShaped ==
    (Settled /\ outcome.kind = "failure") =>
        /\ delivered.tag = "rejected" <=> ~outcome.error.isAxiosError
        /\ delivered.tag = "rejected" => delivered.thrown = outcome.error
        /\ outcome.error.isAxiosError => delivered.tag = "fulfilled" /\ ~delivered.ok

\* C4 witness: one error of each kind has been settled
C4_Witness ==
    /\ Settled /\ outcome.kind = "failure"
    /\ \/ ~outcome.error.isAxiosError /\ delivered.tag = "rejected"
          /\ outcome.error.response.present
       \/ outcome.error.isAxiosError /\ delivered.tag = "fulfilled"
          /\ outcome.error.code = "ECONNABORTED" /\ ~outcome.error.response.present

-----------------------------------------------------------------------------
(* Building a client: createTypedApi, src/src/openapi.ts:178-200 *)

U_id   == <<"/","u","/","{","i","d","}">>
U_lit  == <<"/","u","/","i","d">>
Root   == <<"/">>
R_path == <<"/","r">>

N_getU == <<"g","e","t","U">>

\* the path items the specs are written from
PathItems ==
    { PathItem(U_id,   <<Operation(P_get, N_getU), Operation(P_post, <<>>)>>),
      PathItem(U_id,   <<Operation(P_get, P_request)>>),
      PathItem(U_lit,  <<Operation(P_post, <<>>), Operation(P_get, <<"a","-","b">>)>>),
      PathItem(Root,   <<Operation(P_get, <<>>), Operation(P_post, <<"a","_","b">>)>>),
      PathItem(R_path, <<Operation(P_get, P_request), Operation(P_post, P_paths)>>),
      PathItem(R_path, <<Operation(P_post, P_interceptors)>>),
      PathItem(U_lit,  <<>>) }

\* a spec is an object keyed by path: its items, in insertion order, have
\* different paths
OpenAPISpecs ==
    { sp \in UNION { [1..n -> PathItems] : n \in 0..MaxItems } :
        \A i, j \in DOMAIN sp : i # j => sp[i].path # sp[j].path }

ValidatorChoices == { NoValidators, [k \in {N_getU} |-> {Body}] }

\* the state in which buildClientFromSpec(spec, createApi(config), validators)
\* starts
BuildStart ==
    /\ SplitIdle
    /\ hooks = <<"normalizer">>
    /\ validators \in ValidatorChoices
    /\ outcome = NoOutcome
    /\ delivered = NotDelivered
    /\ pc = "loop"
    /\ methods = NoMap
    /\ paths = NoNestedMap
    /\ visited = <<>>
    /\ api = createApi
    /\ CallIdle

BuildInit == BuildStart /\ spec \in OpenAPISpecs

BuildNext == BuildPath \/ LoopDone \/ InstallHook \/ AssignClient

BuildSpec == BuildInit /\ [][BuildNext]_vars

-----------------------------------------------------------------------------
(* A built client in use *)

\* the specs of the clients that are called
CalledSpecs ==
    { <<PathItem(U_id, <<Operation(P_get, N_getU), Operation(P_post, <<>>)>>)>>,
      <<PathItem(R_path, <<Operation(P_get, P_request)>>),
        PathItem(U_id, <<Operation(P_get, N_getU)>>)>>,
      <<PathItem(U_id, <<Operation(P_get, P_request)>>)>>,
      <<PathItem(R_path, <<Operation(P_get, K_constructor)>>),
        PathItem(U_id, <<Operation(P_get, N_getU)>>)>> }

\* what the transport may answer to the request with configuration cfg
OutcomesFor(cfg) ==
    { Success(Response(Status(200), Body, "headers"), cfg),
      Success(Response(Status(204), Null, "headers"), cfg),
      Failure([isAxiosError |-> TRUE, message |-> "Request failed", code |-> "ERR_BAD_REQUEST",
               cancelled |-> FALSE, response |-> Response(Status(404), Body, "headers"),
               config |-> cfg]),
      Failure([isAxiosError |-> FALSE, message |-> "TypeError", code |-> "",
               cancelled |-> FALSE, response |-> NoResponse, config |-> NoConfig]) }

\* the transport settles one of the requests it holds; the hooks then run on
\* its outcome (Resolve, Reject)
Respond ==
    /\ pc = "ready"
    /\ outcome.kind = "none" \/ delivered # NotDelivered
    /\ \E cfg \in inflight :
          /\ outcome' \in OutcomesFor(cfg)
          /\ inflight' = inflight \ {cfg}
    /\ delivered' = NotDelivered
    /\ UNCHANGED <<hooks, validators, lastCall>>
    /\ UNCHANGED <<splitVars, buildVars>>

Init == BuildStart /\ spec \in CalledSpecs

Next ==
    \/ BuildPath \/ LoopDone \/ InstallHook \/ AssignClient
    \/ Call \/ Respond \/ Resolve \/ Reject

Spec == Init /\ [][Next]_vars

-----------------------------------------------------------------------------
(* Properties of the builder and of operation calls *)

\* the (path, method, operation name) entries of a spec in insertion order
RECURSIVE ItemEntries(_, _)
ItemEntries(item, j) ==
    IF j > Len(item.ops) THEN <<>>
    ELSE <<[path |-> item.path, method |-> item.ops[j].method,
            name |-> OperationName(item.ops[j].method, item.path, item.ops[j].declared)]>>
         \o ItemEntries(item, j + 1)

RECURSIVE Entries(_)
Entries(sp) == IF sp = <<>> THEN <<>> ELSE ItemEntries(Head(sp), 1) \o Entries(Tail(sp))

Built == pc = "ready"

\* C8: a call whose parameters split submits exactly one request, with method,
\* url, params, data and operationId as built and every override key
\* replacing the built value; a call whose splitting fails submits none and
\* surfaces the splitting error.
C8_OneRequestPerCall ==
    lastCall.made =>
        LET fn == lastCall.fn
            sp == splitParams(fn.path, lastCall.params)
            ov == lastCall.overrides
            built == [method |-> fn.method, url |-> sp.url, params |-> sp.queryParams,
                      data |-> lastCall.data, operationId |-> fn.operationId]
        IN  IF sp.tag = "return"
            THEN /\ Len(lastCall.submitted) = 1
                 /\ ~lastCall.thrown.present
                 /\ LET cfg == lastCall.submitted[1]
                    IN  /\ DOMAIN cfg = DOMAIN built \cup DOMAIN ov
                        /\ \A k \in DOMAIN ov : cfg[k] = ov[k]
                        /\ \A k \in DOMAIN built \ DOMAIN ov : cfg[k] = built[k]
            ELSE /\ lastCall.submitted = <<>>
                 /\ lastCall.thrown = Throw(sp.message, sp.key)

\* C9: after the build the transport's own request and interceptor surface is
\* on the client unchanged, whatever the operations are named, and the paths
\* property is the nested path-to-method map.
C9_TransportSurfaceKept ==
    Built =>
        /\ \A n \in TransportSurface : api[n] = Transport(n)
        /\ api[P_paths] = PathsValue
        /\ DOMAIN paths = { spec[i].path : i \in DOMAIN spec }
        /\ \A i \in DOMAIN spec :
              DOMAIN paths[spec[i].path] = { spec[i].ops[j].method : j \in DOMAIN spec[i].ops }

\* C10 as stated: for every entry the nested map's callable is the instance the
\* flat map holds under the entry's name; entries are visited once each in
\* insertion order; of two entries with one name the flat map holds the later.
C10_SameInstanceInBothMaps ==
    Built =>
        LET es == Entries(spec)
        IN  /\ visited = [k \in DOMAIN es |-> <<es[k].path, es[k].method>>]
            /\ \A k \in DOMAIN es : paths[es[k].path][es[k].method] = methods[es[k].name]
            /\ \A k, l \in DOMAIN es :
                  (k < l /\ es[k].name = es[l].name /\ ~\E m \in DOMAIN es : m > l /\ es[m].name = es[l].name)
                      => methods[es[k].name] = paths[es[l].path][es[l].method]

\* C10 amended: entries are visited once each in insertion order and get a
\* callable instance each in the nested map; the flat map holds, under each
\* name, the instance of the last entry with that name, so the two maps hold
\* the same instance for every entry that no later entry shares its name with.
C10_LastEntryOfNameAliased ==
    Built =>
        LET es == Entries(spec)
            last(k) == ~\E m \in DOMAIN es : m > k /\ es[m].name = es[k].name
        IN  /\ visited = [k \in DOMAIN es |-> <<es[k].path, es[k].method>>]
            /\ DOMAIN methods = { es[k].name : k \in DOMAIN es }
            /\ \A k \in DOMAIN es :
                  /\ paths[es[k].path][es[k].method].path = es[k].path
                  /\ paths[es[k].path][es[k].method].method = es[k].method
                  /\ paths[es[k].path][es[k].method].operationId = es[k].name
                  /\ last(k) => methods[es[k].name] = paths[es[k].path][es[k].method]
            /\ \A k, l \in DOMAIN es :
                  k # l => paths[es[k].path][es[k].method] # paths[es[l].path][es[l].method]

\* C10 witness: a built client with two entries of one name and a third entry
C10_Witness ==
    /\ Built
    /\ LET es == Entries(spec)
       IN  /\ Len(es) >= 3
           /\ \E k, l \in DOMAIN es : k < l /\ es[k].name = es[l].name
           /\ \E k \in DOMAIN es : \A l \in DOMAIN es \ {k} : es[l].name # es[k].name

-----------------------------------------------------------------------------
(* Properties of the validation hook *)

\* the result the normalizer hands to the hooks installed after it
BeforeValidation ==
    IF outcome.kind = "success" THEN interceptor(outcome.response, outcome.config)
    ELSE responseError(outcome.error)

\* a validator is registered under the result's operation name and rejects
\* the result's payload
RegisteredValidatorRejects(res) ==
    /\ res.tag = "fulfilled"
    /\ res.ok
    /\ OperationIdOf(res.config) \in DOMAIN validators
    /\ res.data \notin validators[OperationIdOf(res.config)]

\* C11: with validators configured, the validation pass changes a result only
\* when the result is ok and the validator registered under its operation
\* name rejects the payload; the result is then a failure with ok = false,
\* problem = VALIDATION_ERROR, the validation error as originalError, the raw
\* payload as data and the status, headers and config of the success; every
\* other result (a failure, no validator registered for the operation, the
\* validator accepts) is returned unchanged
C11_ValidationChangesOnlyRejectedPayloads ==
    (Settled /\ "validation" \in Range(hooks)) =>
        LET res == BeforeValidation
        IN  IF RegisteredValidatorRejects(res)
            THEN delivered = Fulfilled(FALSE, "VALIDATION_ERROR", res.data, res.status,
                                       res.headers, res.config, ThrownBy("ZodError"), TRUE)
            ELSE delivered = res

\* the same statement for the operation names that the validators object
\* does not inherit from Object.prototype
C11_OwnNamesOnly ==
    (/\ Settled
     /\ "validation" \in Range(hooks)
     /\ OperationIdOf(BeforeValidation.config) \notin ObjectPrototypeKeys) =>
        LET res == BeforeValidation
        IN  IF RegisteredValidatorRejects(res)
            THEN delivered = Fulfilled(FALSE, "VALIDATION_ERROR", res.data, res.status,
                                       res.headers, res.config, ThrownBy("ZodError"), TRUE)
            ELSE delivered = res

\* the response hooks of the transport that createApi returns
CreatedHooks == <<"normalizer">>

\* how often the validation hook is among the response hooks hs
RECURSIVE Installed(_)
Installed(hs) ==
    IF hs = <<>> THEN 0
    ELSE (IF Head(hs) = "validation" THEN 1 ELSE 0) + Installed(Tail(hs))

\* C12: one build installs the validation hook exactly once when a validator
\* is supplied and never when none is, however many operations the spec has:
\* the hooks are those of createApi until the loop over the operations is
\* done, and from then on those followed by the validation hook or those
\* alone; no call of an operation, settled or in flight, installs, removes or
\* replaces a response hook
C12_HookInstalledOncePerBuild ==
    /\ pc \in {"loop", "hook"} => hooks = CreatedHooks
    /\ pc \in {"assign", "ready"} =>
          /\ Installed(hooks) = (IF DOMAIN validators # {} THEN 1 ELSE 0)
          /\ hooks = (IF DOMAIN validators # {} THEN Append(CreatedHooks, "validation")
                                                ELSE CreatedHooks)

\* a client built with a validator from a spec of two operations, after a
\* settled call and with as many requests in flight as the transport holds
C12_Witness ==
    /\ Built
    /\ Len(visited) >= 2
    /\ DOMAIN validators # {}
    /\ Installed(hooks) = 1
    /\ Settled
    /\ lastCall.made
    /\ Cardinality(inflight) >= 2

====
